---- MODULE Spec2Model ----
(***************************************************************************)
(* A model of the MEPs gifts register converter (src/main.py): the Table   *)
(* Loader (load_excel_into_dataframe), the PDF join key derivation         *)
(* (extract_id, process_pdf_files), the Table-Link Joiner (the merge of    *)
(* process_excel_files), the Document Renderer (generate_markdown_gifts,   *)
(* generate_markdown_for_column_values) and the Pipeline Driver            *)
(* (process_excel_files).                                                  *)
(*                                                                         *)
(* Text is a sequence of one-character strings.  A cell is a record        *)
(* [t, v]: t is the type of the value ("text", "num", "date", "nan") and   *)
(* v the characters str() gives for it.                                    *)
(***************************************************************************)
EXTENDS Integers, Sequences, FiniteSets, TLC

VARIABLES pc, xlsx, df, sparse_df, urls, photo_links, joined,
          fs, dirs, log, listing, pos, pdf_urls, merge_order

vars == <<pc, xlsx, df, sparse_df, urls, photo_links, joined,
          fs, dirs, log, listing, pos, pdf_urls, merge_order>>

(***************************************************************************)
(* Bounds of the model.                                                    *)
(***************************************************************************)
MaxRows == 3
MaxUrlLen == 5
MaxUrls == 2
MaxRenders == 3
MaxFiles == 3

(***************************************************************************)
(* Cells.                                                                  *)
(***************************************************************************)
Text(s) == [t |-> "text", v |-> s]
Num(s) == [t |-> "num", v |-> s]
Date(s) == [t |-> "date", v |-> s]
NaN == [t |-> "nan", v |-> <<"n", "a", "n">>]
None == [t |-> "nan", v |-> <<"N", "o", "n", "e">>]

isna(c) == c.t = "nan"

Digits == {"0", "1", "2", "3", "4", "5", "6", "7", "8", "9"}

RECURSIVE Replace(_, _, _)
Replace(s, old, new) ==
    IF s = <<>> THEN <<>>
    ELSE (IF Head(s) = old THEN new ELSE <<Head(s)>>) \o Replace(Tail(s), old, new)

clean_text(c) ==
    IF c.t = "text"
    THEN Text(Replace(Replace(c.v, "\n", <<" ">>), "\r", <<" ">>))
    ELSE c

format_datetime_to_iso8601(c) ==
    IF isna(c) THEN None
    ELSE Text(c.v \o <<"T", "0", "0", ":", "0", "0", ":", "0", "0">>)

(***************************************************************************)
(* Regular expressions, as re.search runs them: the leftmost start, the    *)
(* digit group greedy, backing off one digit at a time.                    *)
(***************************************************************************)
Upper(ch) == IF ch = "g" THEN "G" ELSE IF ch = "j" THEN "J"
             ELSE IF ch = "p" THEN "P" ELSE ch

SameChar(ch, lit, ignorecase) ==
    IF ignorecase THEN Upper(ch) = Upper(lit) ELSE ch = lit

At(s, i) == IF i >= 1 /\ i <= Len(s) THEN s[i] ELSE ""

RECURSIVE DigitRunEnd(_, _)
DigitRunEnd(s, i) ==
    IF At(s, i) \in Digits THEN DigitRunEnd(s, i + 1) ELSE i - 1

TailMatches(s, k, tail, ignorecase) ==
    CASE tail = "sepdd" -> /\ At(s, k + 1) \in {"_", "-"}
                           /\ At(s, k + 2) \in Digits
                           /\ At(s, k + 3) \in Digits
      [] tail = "jpg"   -> /\ At(s, k + 1) = "."
                           /\ SameChar(At(s, k + 2), "j", ignorecase)
                           /\ SameChar(At(s, k + 3), "p", ignorecase)
                           /\ SameChar(At(s, k + 4), "g", ignorecase)
      [] OTHER          -> TRUE

RECURSIVE BackOff(_, _, _, _, _)
BackOff(s, from, k, tail, ignorecase) ==
    IF k < from THEN 0
    ELSE IF TailMatches(s, k, tail, ignorecase) THEN k
    ELSE BackOff(s, from, k - 1, tail, ignorecase)

MatchAt(s, i, lead, tail, ignorecase) ==
    LET from == IF lead THEN i + 1 ELSE i IN
    IF lead /\ ~SameChar(At(s, i), "G", ignorecase) THEN <<>>
    ELSE LET k == BackOff(s, from, DigitRunEnd(s, from), tail, ignorecase) IN
         IF k = 0 THEN <<>> ELSE <<SubSeq(s, from, k)>>

RECURSIVE SearchFrom(_, _, _, _, _)
SearchFrom(s, i, lead, tail, ignorecase) ==
    IF i > Len(s) THEN <<>>
    ELSE LET m == MatchAt(s, i, lead, tail, ignorecase) IN
         IF m # <<>> THEN m ELSE SearchFrom(s, i + 1, lead, tail, ignorecase)

re_search(pattern, s, ignorecase) ==
    SearchFrom(s, 1, pattern.lead, pattern.tail, ignorecase)

(***************************************************************************)
(* Table Loader: load_excel_into_dataframe.  A DataFrame is its column     *)
(* names and its rows, each row its index label and its cells.             *)
(***************************************************************************)
Columns ==
    <<"RegistrationNumber", "NameOfMEP", "Capacity", "NameOfDonor",
      "DescriptionOfGift", "EstimatedValue", "LinkToPhoto",
      "DateOfReception", "DateOfNotification", "Location", "Miscellaneous">>

EmptyDataFrame == [columns |-> <<>>, rows |-> <<>>]

ColIndex(columns, name) == CHOOSE i \in DOMAIN columns : columns[i] = name

Get(d, row, name) == row.cells[ColIndex(d.columns, name)]

df_empty_never(d) == FALSE

df_empty(d) == Len(d.columns) = 0 \/ Len(d.rows) = 0

nan_count(row) == Cardinality({i \in DOMAIN row.cells : isna(row.cells[i])})

total_columns == Len(Columns)

nan_threshold == total_columns - 2

rows_skip_sparse_at_threshold(row) == nan_count(row) >= nan_threshold

rows_skip_sparse(row) == nan_count(row) > nan_threshold

SparseFilter(d) ==
    [d EXCEPT !.rows = SelectSeq(d.rows, LAMBDA r : ~rows_skip_sparse(r))]

CellEq_nan_equal(a, b) == a = b

\* x == header_row, cell by cell: a NaN equals nothing, itself included
CellEq(a, b) == ~isna(a) /\ ~isna(b) /\ a = b

rows_skip_header(row, header_row) ==
    \A i \in DOMAIN row.cells : CellEq(row.cells[i], header_row.cells[i])

HeaderFilter(d) ==
    LET header_row == d.rows[1] IN
    [d EXCEPT !.rows = SelectSeq(d.rows, LAMBDA r : ~rows_skip_header(r, header_row))]

\* pd.to_datetime(errors='coerce') of one cell
to_datetime(c) == IF c.t = "date" THEN c ELSE [t |-> "nan", v |-> <<"N", "a", "T">>]

CoerceColumn(d, name) ==
    LET k == ColIndex(d.columns, name) IN
    [d EXCEPT !.rows = [i \in DOMAIN d.rows |->
        [d.rows[i] EXCEPT !.cells[k] = to_datetime(d.rows[i].cells[k])]]]

datetime_columns == <<"DateOfReception", "DateOfNotification">>

CoerceDates(d) == CoerceColumn(CoerceColumn(d, datetime_columns[1]), datetime_columns[2])

\* G(\d+)[\-_]\d\d
RegistrationPattern == [lead |-> TRUE, tail |-> "sepdd"]

str_extract(c) ==
    IF c.t # "text" THEN NaN
    ELSE LET m == re_search(RegistrationPattern, c.v, FALSE) IN
         IF m = <<>> THEN NaN ELSE Text(m[1])

\* The .str accessor raises AttributeError unless the column holds strings:
\* a column read without any text is numeric, and an object column whose
\* remaining values are all numbers is inferred as numeric too.
StrAccessorRaises(rawcol, col) ==
    \/ \A i \in DOMAIN rawcol : rawcol[i].t # "text"
    \/ /\ \E i \in DOMAIN col : ~isna(col[i])
       /\ \A i \in DOMAIN col : isna(col[i]) \/ col[i].t = "num"

ColumnOf(d, name) == [i \in DOMAIN d.rows |-> Get(d, d.rows[i], name)]

AddId(d) ==
    [columns |-> Append(d.columns, "Id"),
     rows |-> [i \in DOMAIN d.rows |->
        [d.rows[i] EXCEPT !.cells =
            Append(@, str_extract(Get(d, d.rows[i], "RegistrationNumber")))]]]

CleanCell(c) ==
    IF c.t = "text" THEN clean_text(c)
    ELSE IF c.t = "date" \/ c.v = <<"N", "a", "T">> THEN format_datetime_to_iso8601(c)
    ELSE c

CleanAndFormat(d) ==
    [d EXCEPT !.rows = [i \in DOMAIN d.rows |->
        [d.rows[i] EXCEPT !.cells = [k \in DOMAIN @ |-> CleanCell(@[k])]]]]

\* pd.read_excel and the assignment of the 11 column names
Named(file) ==
    [columns |-> Columns,
     rows |-> [i \in DOMAIN file.rows |-> [idx |-> i - 1, cells |-> file.rows[i]]]]

ReadRaises(file) == ~file.readable \/ file.ncols # Len(Columns)

AfterSparse(file) == SparseFilter(Named(file))

HeaderRaises(file) == Len(AfterSparse(file).rows) = 0

AfterHeader(file) == HeaderFilter(AfterSparse(file))

IdRaises(file) ==
    StrAccessorRaises(ColumnOf(Named(file), "RegistrationNumber"),
                      ColumnOf(AfterHeader(file), "RegistrationNumber"))

LoadRaises(file) ==
    \/ ReadRaises(file)
    \/ HeaderRaises(file)
    \/ IdRaises(file)

load_excel_into_dataframe(file) ==
    IF LoadRaises(file) THEN EmptyDataFrame
    ELSE CleanAndFormat(AddId(CoerceDates(AfterHeader(file))))

(***************************************************************************)
(* The spreadsheets the loader is run on: every table of at most MaxRows   *)
(* rows whose cells are drawn per row from the values below, a spreadsheet *)
(* that cannot be read and one with 10 columns.                            *)
(***************************************************************************)
G1_23 == <<"G", "1", "-", "2", "3">>

TailCells(kind) ==
    CASE kind = "none" -> <<NaN, NaN, NaN, NaN, NaN, NaN, NaN, NaN, NaN>>
      [] kind = "last" -> <<NaN, NaN, NaN, NaN, NaN, NaN, NaN, NaN,
                            Text(<<"m", "\n", "n">>)>>
      [] OTHER         -> <<Text(<<"c">>), Text(<<"d">>), Text(<<"g">>), Num(<<"5">>),
                            Text(<<"l">>), Date(<<"2", "3", "-", "0", "1">>),
                            Text(<<"x">>), Text(<<"o">>), Text(<<"m">>)>>

MkRow(c1, c2, kind) == <<c1, c2>> \o TailCells(kind)

InputRows ==
    {MkRow(c1, c2, kind) : c1 \in {NaN, Text(G1_23), Num(<<"7">>)},
                           c2 \in {NaN, Text(<<"A">>)},
                           kind \in {"none", "last", "all"}}

SeqsUpTo(S, n) == UNION {[1..k -> S] : k \in 0..n}

LoaderFiles ==
    {[readable |-> TRUE, ncols |-> Len(Columns), rows |-> rs] :
        rs \in SeqsUpTo(InputRows, MaxRows)}
    \cup {[readable |-> FALSE, ncols |-> Len(Columns), rows |-> <<>>]}
    \cup {[readable |-> TRUE, ncols |-> Len(Columns) - 1,
           rows |-> <<SubSeq(MkRow(Text(G1_23), Text(<<"A">>), "all"), 1, 10)>>]}

NoFile == [readable |-> FALSE, ncols |-> 0, rows |-> <<>>]

(***************************************************************************)
(* load_excel_into_dataframe, statement by statement.                      *)
(***************************************************************************)
LoaderIdle ==
    /\ urls = <<>> /\ photo_links = <<>> /\ joined = EmptyDataFrame
    /\ fs = <<>> /\ dirs = {} /\ log = <<>>
    /\ listing = <<>> /\ pos = 0 /\ pdf_urls = <<>> /\ merge_order = "left"

LoaderInit ==
    /\ pc = "read"
    /\ xlsx \in LoaderFiles
    /\ df = EmptyDataFrame
    /\ sparse_df = EmptyDataFrame
    /\ LoaderIdle

LoaderRest == UNCHANGED <<xlsx, urls, photo_links, joined, fs, dirs, log,
                          listing, pos, pdf_urls, merge_order>>

ReadExcel ==
    /\ pc = "read"
    /\ IF ReadRaises(xlsx)
       THEN pc' = "except" /\ df' = df
       ELSE pc' = "sparse" /\ df' = Named(xlsx)
    /\ UNCHANGED sparse_df
    /\ LoaderRest

SparseRows ==
    /\ pc = "sparse"
    /\ df' = SparseFilter(df)
    /\ sparse_df' = df'
    /\ pc' = "header"
    /\ LoaderRest

HeaderRows ==
    /\ pc = "header"
    /\ IF Len(df.rows) = 0
       THEN pc' = "except" /\ df' = df
       ELSE pc' = "convert" /\ df' = HeaderFilter(df)
    /\ UNCHANGED sparse_df
    /\ LoaderRest

ConvertColumns ==
    /\ pc = "convert"
    /\ IF StrAccessorRaises(ColumnOf(Named(xlsx), "RegistrationNumber"),
                            ColumnOf(df, "RegistrationNumber"))
       THEN pc' = "except" /\ df' = df
       ELSE pc' = "returned" /\ df' = CleanAndFormat(AddId(CoerceDates(df)))
    /\ UNCHANGED sparse_df
    /\ LoaderRest

LoadExcept ==
    /\ pc = "except"
    /\ df' = EmptyDataFrame
    /\ pc' = "returned"
    /\ UNCHANGED sparse_df
    /\ LoaderRest

LoaderNext == ReadExcel \/ SparseRows \/ HeaderRows \/ ConvertColumns \/ LoadExcept

SpecLoader == LoaderInit /\ [][LoaderNext]_vars

\* the statements compose to the function the driver calls
LoaderComposes == pc = "returned" => df = load_excel_into_dataframe(xlsx)

(***************************************************************************)
(* Claims about the Row Filter.                                            *)
(***************************************************************************)
Labels(d) == {d.rows[j].idx : j \in DOMAIN d.rows}

NonEmptyCells(cells) == Cardinality({k \in DOMAIN cells : cells[k].t # "nan"})

EmptyCells(cells) == Len(cells) - NonEmptyCells(cells)

\* C3: the sparse step removes a row exactly when more than 9 (11 - 2) of its
\* 11 cells are empty, that is when it has at most 1 non-empty cell; a row
\* with 2 or more non-empty cells survives, wherever they are.
C3_SparseExactlyAtMostOneValue ==
    pc = "header" =>
        /\ \A i \in DOMAIN xlsx.rows :
            /\ Len(xlsx.rows[i]) = 11
            /\ (i - 1) \notin Labels(sparse_df) <=> EmptyCells(xlsx.rows[i]) > 9
            /\ (i - 1) \notin Labels(sparse_df) <=> NonEmptyCells(xlsx.rows[i]) <= 1
            /\ NonEmptyCells(xlsx.rows[i]) >= 2 =>
                   \E j \in DOMAIN sparse_df.rows :
                       sparse_df.rows[j] = [idx |-> i - 1, cells |-> xlsx.rows[i]]
        /\ \A j \in DOMAIN sparse_df.rows : \A k \in DOMAIN sparse_df.rows :
               j < k => sparse_df.rows[j].idx < sparse_df.rows[k].idx

C3_Witness ==
    /\ pc = "header"
    /\ \E i \in DOMAIN xlsx.rows :
           NonEmptyCells(xlsx.rows[i]) = 2 /\ isna(xlsx.rows[i][1])
           /\ (i - 1) \in Labels(sparse_df)
    /\ \E i \in DOMAIN xlsx.rows :
           NonEmptyCells(xlsx.rows[i]) = 1 /\ (i - 1) \notin Labels(sparse_df)

\* C4: after the sparse step, every later row identical to the first remaining
\* row in all 11 columns (columns where both are empty included) is absent
\* from the Row Filter's output, and no row differing from the first remaining
\* row in some cell is removed by the header-echo step.
C4_HeaderEchoRemovesIdenticalRows ==
    pc = "convert" =>
        \A j \in 2..Len(sparse_df.rows) :
            LET first == sparse_df.rows[1]
                r == sparse_df.rows[j] IN
            /\ r.cells = first.cells => r.idx \notin Labels(df)
            /\ r.cells # first.cells => r.idx \in Labels(df)

patterns ==
    <<[lead |-> TRUE, tail |-> "sepdd"],      \* G(\d+)[_\-]\d\d
      [lead |-> TRUE, tail |-> "none"],       \* G(\d+)
      [lead |-> FALSE, tail |-> "sepdd"],     \* (\d+)[_\-]\d\d
      [lead |-> FALSE, tail |-> "jpg"]>>      \* (\d+)\.jpg

RECURSIVE TryPatterns(_, _, _, _)
TryPatterns(ps, n, url, ignorecase) ==
    IF n > Len(ps) THEN None
    ELSE LET match == re_search(ps[n], url, ignorecase) IN
         IF match # <<>> THEN Text(match[1])
         ELSE TryPatterns(ps, n + 1, url, ignorecase)

extract_id_case_sensitive(url) == TryPatterns(patterns, 1, url, FALSE)

extract_id(url) == TryPatterns(patterns, 1, url, TRUE)

LinkRecords(us) ==
    [i \in DOMAIN us |-> [Id |-> extract_id(us[i]), LinkToPhoto |-> Text(us[i])]]

UrlAlphabet == {"g", "1", "2", "-", ".", "j", "p"}

ExampleUrl ==
    <<"h", "t", "t", "p", "s", ":", "/", "/", "e", "x", "a", "m", "p", "l", "e",
      ".", "c", "o", "m", "/", "p", "h", "o", "t", "o", "s", "/",
      "G", "4", "5", "_", "0", "1", ".", "j", "p", "g">>

SampleUrls ==
    {ExampleUrl,
     <<"G", "1", "_", "2", "3">>,
     <<"g", "1", ".", "J", "P", "G">>,
     <<"2", ".", "j", "p", "g">>,
     <<"a", "/", "b">>}

PdfInputs ==
    {<<u>> : u \in SeqsUpTo(UrlAlphabet, MaxUrlLen)}
    \cup SeqsUpTo(SampleUrls, MaxUrls)

PdfRest == UNCHANGED <<xlsx, df, sparse_df, joined, fs, dirs, log,
                       listing, pos, pdf_urls, merge_order>>

ProcessPdf ==
    /\ pc = "pdf"
    /\ photo_links' = LinkRecords(urls)
    /\ pc' = "xlsx"
    /\ UNCHANGED urls
    /\ PdfRest

PdfInit ==
    /\ pc = "pdf"
    /\ urls \in PdfInputs
    /\ photo_links = <<>>
    /\ xlsx = NoFile /\ df = EmptyDataFrame /\ sparse_df = EmptyDataFrame
    /\ joined = EmptyDataFrame
    /\ fs = <<>> /\ dirs = {} /\ log = <<>>
    /\ listing = <<>> /\ pos = 0 /\ pdf_urls = <<>> /\ merge_order = "left"

PdfNext == ProcessPdf

SpecPdf == PdfInit /\ [][PdfNext]_vars

(***************************************************************************)
(* Claim about the join key of a URL.                                      *)
(***************************************************************************)
IsG(ch) == ch \in {"G", "g"}

AllDigits(s, a, b) == \A m \in a..b : s[m] \in Digits

SepTwoDigits(s, k) ==
    /\ k + 3 <= Len(s)
    /\ s[k + 1] \in {"_", "-"}
    /\ s[k + 2] \in Digits
    /\ s[k + 3] \in Digits

DotJpg(s, k) ==
    /\ k + 4 <= Len(s)
    /\ s[k + 1] = "."
    /\ s[k + 2] \in {"j", "J"}
    /\ s[k + 3] \in {"p", "P"}
    /\ s[k + 4] \in {"g", "G"}

\* the matches of each pattern in s, as <<first, last>> positions of the group
Matches(n, s) ==
    {m \in (1..Len(s)) \X (1..Len(s)) :
        /\ m[1] <= m[2]
        /\ AllDigits(s, m[1], m[2])
        /\ n \in {1, 2} => m[1] > 1 /\ IsG(s[m[1] - 1])
        /\ n \in {1, 3} => SepTwoDigits(s, m[2])
        /\ n = 4 => DotJpg(s, m[2])}

\* the match the search reports: the leftmost, and of those the longest group
Reported(n, s) ==
    CHOOSE m \in Matches(n, s) :
        \A o \in Matches(n, s) : m[1] < o[1] \/ (m[1] = o[1] /\ m[2] >= o[2])

CascadeId(s) ==
    IF \A n \in 1..4 : Matches(n, s) = {} THEN None
    ELSE LET n == CHOOSE k \in 1..4 :
                      Matches(k, s) # {} /\ \A e \in 1..(k - 1) : Matches(e, s) = {}
             m == Reported(n, s) IN
         Text(SubSeq(s, m[1], m[2]))

\* C9: the Id of a URL is the first captured group of the first of the four
\* patterns, in their order and ignoring case, that matches anywhere in the
\* URL; a later pattern counts only when every earlier one fails; when none
\* matches the Id is absent and the record is still kept in the file's list.
C9_FirstMatchingPatternGivesId ==
    pc = "xlsx" =>
        /\ Len(photo_links) = Len(urls)
        /\ \A i \in DOMAIN urls :
            /\ photo_links[i].LinkToPhoto = Text(urls[i])
            /\ photo_links[i].Id = CascadeId(urls[i])
            /\ urls[i] = ExampleUrl => photo_links[i].Id = Text(<<"4", "5">>)

C9_Witness ==
    /\ pc = "xlsx"
    /\ Len(urls) = 2
    /\ urls[1] = ExampleUrl /\ photo_links[1].Id = Text(<<"4", "5">>)
    /\ photo_links[2] = [Id |-> None, LinkToPhoto |-> Text(<<"a", "/", "b">>)]

(***************************************************************************)
(* Table-Link Joiner: the drop of LinkToPhoto and the merge on Id of       *)
(* process_excel_files.  merge matches equal keys and, as pandas does, a   *)
(* null key with a null key.  A joined row keeps, beside its cells, the    *)
(* label of the table row (left) and the position of the link record       *)
(* (right) it was made from.  The order of the result depends on the       *)
(* pandas version: the order of the left rows, or grouped by key.          *)
(***************************************************************************)
DropColumn(d, name) ==
    LET k == ColIndex(d.columns, name)
        Without(q) == SubSeq(q, 1, k - 1) \o SubSeq(q, k + 1, Len(q)) IN
    [columns |-> Without(d.columns),
     rows |-> [i \in DOMAIN d.rows |-> [d.rows[i] EXCEPT !.cells = Without(@)]]]

KeyEq(a, b) == (isna(a) /\ isna(b)) \/ (~isna(a) /\ ~isna(b) /\ a = b)

RECURSIVE MatchesOf(_, _, _, _)
MatchesOf(d, row, links, n) ==
    IF n > Len(links) THEN <<>>
    ELSE (IF KeyEq(Get(d, row, "Id"), links[n].Id)
          THEN <<[idx |-> 0, cells |-> Append(row.cells, links[n].LinkToPhoto),
                  left |-> row.idx, right |-> n]>>
          ELSE <<>>) \o MatchesOf(d, row, links, n + 1)

RECURSIVE PairsFrom(_, _, _, _)
PairsFrom(d, rows, links, i) ==
    IF i > Len(rows) THEN <<>>
    ELSE MatchesOf(d, rows[i], links, 1) \o PairsFrom(d, rows, links, i + 1)

RECURSIVE KeysInOrder(_, _, _)
KeysInOrder(d, i, seen) ==
    IF i > Len(d.rows) THEN seen
    ELSE LET key == Get(d, d.rows[i], "Id") IN
         KeysInOrder(d, i + 1,
             IF isna(key) \/ \E j \in DOMAIN seen : seen[j] = key
             THEN seen ELSE Append(seen, key))

RECURSIVE ByKey(_, _, _, _)
ByKey(d, keys, links, n) ==
    IF n > Len(keys) THEN <<>>
    ELSE PairsFrom(d, SelectSeq(d.rows, LAMBDA r : KeyEq(Get(d, r, "Id"), keys[n])),
                   links, 1)
         \o ByKey(d, keys, links, n + 1)

Reindex(rows) == [i \in DOMAIN rows |-> [rows[i] EXCEPT !.idx = i - 1]]

merge(d, links, order) ==
    [columns |-> Append(d.columns, "LinkToPhoto"),
     rows |-> Reindex(IF order = "left"
                      THEN PairsFrom(d, d.rows, links, 1)
                      ELSE ByKey(d, Append(KeysInOrder(d, 1, <<>>), NaN), links, 1))]

Join(d, links, order) == merge(DropColumn(d, "LinkToPhoto"), links, order)

(***************************************************************************)
(* The join of one spreadsheet with the links of the PDF of its basename.  *)
(***************************************************************************)
HeaderLine ==
    <<Text(<<"N", "o">>), Text(<<"M", "E", "P">>)>> \o TailCells("all")

G2_23 == <<"G", "2", "_", "2", "3">>

JoinRows ==
    {MkRow(Text(rn), Text(<<"A">>), "all") : rn \in {G1_23, G2_23, <<"n", "/", "a">>}}

JoinFiles ==
    {[readable |-> TRUE, ncols |-> Len(Columns), rows |-> <<HeaderLine>> \o rs] :
        rs \in SeqsUpTo(JoinRows, MaxRows - 1)}

JoinUrls ==
    {<<"G", "1", "_", "2", "3">>,
     <<"g", "1", ".", "J", "P", "G">>,
     <<"2", ".", "j", "p", "g">>,
     <<"a", "/", "b">>}

JoinInit ==
    /\ pc = "pdf"
    /\ urls \in SeqsUpTo(JoinUrls, MaxUrls)
    /\ photo_links = <<>>
    /\ xlsx \in JoinFiles
    /\ df = EmptyDataFrame /\ sparse_df = EmptyDataFrame
    /\ joined = EmptyDataFrame
    /\ fs = <<>> /\ dirs = {} /\ log = <<>>
    /\ listing = <<>> /\ pos = 0 /\ pdf_urls = <<>>
    /\ merge_order \in {"left", "key"}

LoadTable ==
    /\ pc = "xlsx"
    /\ xlsx # NoFile
    /\ df' = load_excel_into_dataframe(xlsx)
    /\ pc' = IF df_empty(df') THEN "skipped" ELSE "merge"
    /\ UNCHANGED <<xlsx, sparse_df, urls, photo_links, joined, fs, dirs, log,
                   listing, pos, pdf_urls, merge_order>>

MergeLinks ==
    /\ pc = "merge"
    /\ joined' = Join(df, photo_links, merge_order)
    /\ pc' = "joined"
    /\ UNCHANGED <<xlsx, df, sparse_df, urls, photo_links, fs, dirs, log,
                   listing, pos, pdf_urls, merge_order>>

JoinNext == ProcessPdf \/ LoadTable \/ MergeLinks

SpecJoin == JoinInit /\ [][JoinNext]_vars

(***************************************************************************)
(* Claims about the join.                                                  *)
(***************************************************************************)
RowOf(d, label) == CHOOSE r \in {d.rows[i] : i \in DOMAIN d.rows} : r.idx = label

Present(c) == c.t # "nan"

HasLink(d, row) ==
    \E n \in DOMAIN photo_links :
        Present(photo_links[n].Id) /\ photo_links[n].Id = Get(d, row, "Id")

\* C1: the join is a sound inner join: a table row is in the joined output
\* only if its Id is present and equals the Id of some PDF Link Record; a row
\* with an absent Id or an Id no record has is dropped; a record with an
\* absent Id contributes no row; every kept row carries as LinkToPhoto the
\* URL of a record with its Id and not the spreadsheet's LinkToPhoto.
C1_SoundInnerJoin ==
    pc = "joined" =>
        /\ \A j \in DOMAIN joined.rows :
            LET out == joined.rows[j]
                row == RowOf(df, out.left)
                link == photo_links[out.right] IN
            /\ Present(Get(df, row, "Id"))
            /\ Present(link.Id)
            /\ link.Id = Get(df, row, "Id")
            /\ Get(joined, out, "LinkToPhoto") = link.LinkToPhoto
            /\ Cardinality({k \in DOMAIN joined.columns :
                                joined.columns[k] = "LinkToPhoto"}) = 1
        /\ \A i \in DOMAIN df.rows :
            ~HasLink(df, df.rows[i]) =>
                \A j \in DOMAIN joined.rows : joined.rows[j].left # df.rows[i].idx

\* C2: each table row yields at most one row of the joined output, also when
\* several records derive the same Id, so the joined output never has more
\* rows than the table had before the join.
C2_AtMostOneRowPerTableRow ==
    pc = "joined" =>
        /\ \A i \in DOMAIN df.rows :
            Cardinality({j \in DOMAIN joined.rows :
                            joined.rows[j].left = df.rows[i].idx}) <= 1
        /\ Len(joined.rows) <= Len(df.rows)

(***************************************************************************)
(* The file system: fs maps the path of each file to its content, dirs is  *)
(* the set of directories.  A path is text; a content is the sequence of   *)
(* the strings written, a column name or a fixed phrase being one string.  *)
(***************************************************************************)
output_directory == <<"g", "i", "f", "t", "s", "/">>

path_join(a, b) ==
    IF b # <<>> /\ b[1] = "/" THEN b
    ELSE IF a = <<>> \/ a[Len(a)] = "/" THEN a \o b
    ELSE a \o <<"/">> \o b

Slashes(p) == {k \in DOMAIN p : p[k] = "/"}

Dirname(p) ==
    IF Slashes(p) = {} THEN <<>>
    ELSE SubSeq(p, 1, (CHOOSE k \in Slashes(p) : \A o \in Slashes(p) : o <= k) - 1)

\* os.makedirs: the directory and every missing parent
makedirs(ds, d) == ds \cup {d} \cup ({SubSeq(d, 1, k - 1) : k \in Slashes(d)} \ {<<>>})

path_exists(files, ds, p) == p \in ds \/ p \in DOMAIN files

\* open(path, 'w') raises when the directory of the path does not exist
OpenRaises(ds, p) == Dirname(p) # <<>> /\ Dirname(p) \notin ds

open_append(files, p) == IF p \in DOMAIN files THEN files ELSE (p :> <<>>) @@ files

\* open(path, 'w') creates the file or truncates it
open_w(files, p) == (p :> <<>>) @@ files

write(files, p, text) == [files EXCEPT ![p] = @ \o text]

(***************************************************************************)
(* Document Renderer: generate_markdown_gifts.  A row is a Series: its     *)
(* column labels and its cells.                                            *)
(***************************************************************************)
Item(row, name) == row.cells[ColIndex(row.columns, name)]

RECURSIVE LastSegment(_, _)
LastSegment(s, sep) ==
    IF \E k \in DOMAIN s : s[k] = sep
    THEN LastSegment(SubSeq(s, (CHOOSE k \in DOMAIN s : s[k] = sep) + 1, Len(s)), sep)
    ELSE s

Escape(s) == Replace(s, "\"", <<"\\", "\"">>)

IsNameColumn(col) == col = "NameOfMEP" \/ col = "NameOfDonor"

\* value.replace of a value that is no string raises AttributeError
LineRaises(col, c) == IsNameColumn(col) /\ c.t # "text"

FrontMatterLine(col, c) ==
    IF IsNameColumn(col)
    THEN <<col, ":", " ", "\"", "[", "[">> \o Escape(c.v) \o <<"]", "]", "\"", "\n">>
    ELSE IF c.t = "text"
    THEN <<col, ":", " ", "\"">> \o Escape(c.v) \o <<"\"", "\n">>
    ELSE <<col, ":", " ">> \o c.v \o <<"\n">>

\* the lines written for the columns from k on, up to the first that raises
RECURSIVE FrontMatter(_, _)
FrontMatter(row, k) ==
    IF k > Len(row.columns) THEN [text |-> <<>>, raised |-> FALSE]
    ELSE IF LineRaises(row.columns[k], row.cells[k]) THEN [text |-> <<>>, raised |-> TRUE]
    ELSE LET rest == FrontMatter(row, k + 1) IN
         [text |-> FrontMatterLine(row.columns[k], row.cells[k]) \o rest.text,
          raised |-> rest.raised]

Dashes == <<"-", "-", "-", "\n">>

Body(row) ==
    <<"# ">> \o Item(row, "DescriptionOfGift").v \o <<"\n", "\n">>
    \o <<"Received by: ">> \o Item(row, "NameOfMEP").v \o <<"\n">>
    \o <<"From: ">> \o Item(row, "NameOfDonor").v \o <<"\n">>

\* everything one call writes to the file it opened
Written(row) ==
    LET front == FrontMatter(row, 1) IN
    IF front.raised THEN Dashes \o front.text
    ELSE Dashes \o front.text \o Dashes \o <<"\n">> \o Body(row)

YearOf(rn) == <<"2", "0">> \o LastSegment(rn, "-")

GiftPath(rn) ==
    path_join(path_join(output_directory, YearOf(rn)), rn \o <<".", "m", "d">>)

\* the call: [files, ds, status, path, written]
generate_markdown_gifts(files, ds, row) ==
    LET rn == Item(row, "RegistrationNumber") IN
    IF rn.t # "text"
    THEN [files |-> files, ds |-> ds, status |-> "raised", path |-> <<>>,
          written |-> <<>>]
    ELSE LET year_directory == path_join(output_directory, YearOf(rn.v))
             full_path == GiftPath(rn.v)
             ds2 == IF path_exists(files, ds, year_directory) THEN ds
                    ELSE makedirs(ds, year_directory) IN
         IF OpenRaises(ds2, full_path)
         THEN [files |-> files, ds |-> ds2, status |-> "raised", path |-> full_path,
               written |-> <<>>]
         ELSE [files |-> write(open_w(files, full_path), full_path, Written(row)),
               ds |-> ds2,
               status |-> IF FrontMatter(row, 1).raised THEN "raised" ELSE "created",
               path |-> full_path,
               written |-> Written(row)]

(***************************************************************************)
(* The rows the renderer is given: rows of loaded tables, some of them     *)
(* joined with the link of a PDF.                                          *)
(***************************************************************************)
NotAvailable == <<"n", "/", "a">>

RenderFiles ==
    {[readable |-> TRUE, ncols |-> Len(Columns),
      rows |-> <<HeaderLine, MkRow(c1, c2, "all")>>] :
        c1 \in {Text(G1_23), Text(G2_23), Text(NotAvailable), NaN},
        c2 \in {Text(<<"A">>), Text(<<"O", "\"", "B">>), NaN}}

SeriesOf(d) ==
    {[columns |-> d.columns, cells |-> d.rows[i].cells] : i \in DOMAIN d.rows}

RenderRows ==
    UNION {SeriesOf(load_excel_into_dataframe(f)) : f \in RenderFiles}
    \cup UNION {SeriesOf(Join(load_excel_into_dataframe(f),
                              LinkRecords(<<<<"G", "1", "_", "2", "3">>>>), "left")) :
                f \in RenderFiles}

RenderInit ==
    /\ pc = "render"
    /\ fs = <<>> /\ dirs = {} /\ log = <<>>
    /\ xlsx = NoFile /\ df = EmptyDataFrame /\ sparse_df = EmptyDataFrame
    /\ urls = <<>> /\ photo_links = <<>> /\ joined = EmptyDataFrame
    /\ listing = <<>> /\ pos = 0 /\ pdf_urls = <<>> /\ merge_order = "left"

RenderGift ==
    /\ pc = "render"
    /\ Len(log) < MaxRenders
    /\ \E row \in RenderRows :
        LET call == generate_markdown_gifts(fs, dirs, row) IN
        /\ fs' = call.files
        /\ dirs' = call.ds
        /\ log' = Append(log, [row |-> row, path |-> call.path,
                               status |-> call.status, written |-> call.written])
    /\ UNCHANGED <<pc, xlsx, df, sparse_df, urls, photo_links, joined, listing, pos,
                   pdf_urls, merge_order>>

RenderNext == RenderGift

SpecRender == RenderInit /\ [][RenderNext]_vars

(***************************************************************************)
(* Claims about the renderer.                                              *)
(***************************************************************************)
RECURSIVE SplitLines(_)
SplitLines(text) ==
    IF text = <<>> THEN <<>>
    ELSE LET end == CHOOSE k \in 1..(Len(text) + 1) :
                        /\ k = Len(text) + 1 \/ text[k] = "\n"
                        /\ \A o \in 1..(k - 1) : text[o] # "\n" IN
         <<SubSeq(text, 1, end - 1)>> \o SplitLines(SubSeq(text, end + 1, Len(text)))

JoinKeyFormat(rn) ==
    /\ Len(rn) >= 5
    /\ rn[1] = "G"
    /\ AllDigits(rn, 2, Len(rn) - 3)
    /\ rn[Len(rn) - 2] \in {"-", "_"}
    /\ AllDigits(rn, Len(rn) - 1, Len(rn))

Usable(row) ==
    /\ Item(row, "RegistrationNumber").t = "text"
    /\ JoinKeyFormat(Item(row, "RegistrationNumber").v)

Quoted(s) == <<"\"">> \o Escape(s) \o <<"\"">>

Linked(s) == <<"\"", "[", "[">> \o Escape(s) \o <<"]", "]", "\"">>

LineAsClaimed(line, col, c) ==
    LET key == <<col, ":", " ">> IN
    IF IsNameColumn(col) /\ c.t = "text" THEN line = key \o Linked(c.v)
    ELSE IF IsNameColumn(col) THEN line \in {key \o Linked(c.v), key \o c.v}
    ELSE IF c.t = "text" THEN line = key \o Quoted(c.v)
    ELSE line = key \o c.v

\* C7: for every row with a usable RegistrationNumber, whatever the types of
\* its cells (text, number, null), the render completes and writes between two
\* --- lines exactly one key: value line per column, in column order: the two
\* name columns as "[[value]]", other text quoted, both with " escaped as \",
\* and non-text values literally.
C7_FrontMatterForEveryRow ==
    \A n \in DOMAIN log :
        LET e == log[n]
            lines == SplitLines(e.written)
            count == Len(e.row.columns) IN
        Usable(e.row) =>
            /\ e.status = "created"
            /\ Len(lines) >= count + 2
            /\ lines[1] = <<"-", "-", "-">>
            /\ lines[count + 2] = <<"-", "-", "-">>
            /\ \A k \in 1..count :
                   LineAsClaimed(lines[k + 1], e.row.columns[k], e.row.cells[k])

\* C8: for every RegistrationNumber of the Join Key format (G, digits, '-' or
\* '_', two digits YY) the gift document is written at
\* {output_root}/20YY/{RegistrationNumber}.md.
C8_YearDirectoryFromLastTwoDigits ==
    \A n \in DOMAIN log :
        LET e == log[n]
            rn == Item(e.row, "RegistrationNumber").v IN
        Usable(e.row) =>
            /\ e.path = output_directory \o <<"2", "0">> \o SubSeq(rn, Len(rn) - 1, Len(rn))
                        \o <<"/">> \o rn \o <<".", "m", "d">>
            /\ e.path \in DOMAIN fs

Wrote(e) == e.written # <<>>

\* C10: after any sequence of renders, the file of a RegistrationNumber holds
\* exactly what the most recent render for it wrote and nothing of an earlier
\* one; the year directory may exist already, and a render leaves the files at
\* other paths as they were.
C10_LastWriterWins ==
    /\ \A n \in DOMAIN log :
        Wrote(log[n]) =>
            /\ log[n].path \in DOMAIN fs
            /\ Dirname(log[n].path) \in dirs
            /\ (\A o \in (n + 1)..Len(log) : ~(Wrote(log[o]) /\ log[o].path = log[n].path))
                   => fs[log[n].path] = log[n].written
            /\ \A o \in DOMAIN log :
                   (Wrote(log[o]) /\ log[o].path = log[n].path) <=>
                   (Item(log[o].row, "RegistrationNumber") =
                    Item(log[n].row, "RegistrationNumber"))
    /\ \A p \in DOMAIN fs : \E n \in DOMAIN log : Wrote(log[n]) /\ log[n].path = p

C10_Witness ==
    /\ Len(log) = 3
    /\ Wrote(log[1]) /\ Wrote(log[2]) /\ Wrote(log[3])
    /\ log[1].path = log[3].path
    /\ log[1].written # log[3].written
    /\ log[2].path # log[1].path
    /\ fs[log[3].path] = log[3].written
    /\ fs[log[2].path] = log[2].written

(***************************************************************************)
(* Index documents: generate_markdown_for_column_values.  A call result    *)
(* is [files, ds, status].                                                 *)
(***************************************************************************)
IndexFilename(value) ==
    Replace(Replace(value.v \o <<".", "m", "d">>, "/", <<"-">>), "\\", <<"-">>)

IndexContent(value) == <<"# ">> \o value.v \o <<"\n", "\n">> \o <<"\n">>

RECURSIVE generate_markdown_for_column_values(_, _, _, _, _)
generate_markdown_for_column_values(files, ds, unique_values, directory, n) ==
    IF n > Len(unique_values) THEN [files |-> files, ds |-> ds, status |-> "ok"]
    ELSE LET full_path == path_join(directory, IndexFilename(unique_values[n])) IN
         IF OpenRaises(ds, full_path)
         THEN [files |-> files, ds |-> ds, status |-> "raised"]
         ELSE generate_markdown_for_column_values(
                  write(open_w(files, full_path), full_path,
                        IndexContent(unique_values[n])),
                  ds, unique_values, directory, n + 1)

\* df[column].dropna().unique(): the values in order of first appearance
RECURSIVE Unique(_, _, _)
Unique(col, n, seen) ==
    IF n > Len(col) THEN seen
    ELSE Unique(col, n + 1,
                IF isna(col[n]) \/ \E j \in DOMAIN seen : seen[j] = col[n]
                THEN seen ELSE Append(seen, col[n]))

output_directory_mep == <<"m", "e", "p", "s">>

output_directory_donor == <<"d", "o", "n", "o", "r", "s">>

(***************************************************************************)
(* Pipeline Driver: process_pdf_files and process_excel_files, one         *)
(* directory entry at a time.  An entry is its basename, its extension     *)
(* and what the file holds.                                                *)
(***************************************************************************)
HasColumn(d, name) == \E k \in DOMAIN d.columns : d.columns[k] = name

\* the loop over df.iterrows(), up to the first call that raises
RECURSIVE RenderAll(_, _, _, _)
RenderAll(files, ds, d, n) ==
    IF n > Len(d.rows) THEN [files |-> files, ds |-> ds, status |-> "ok"]
    ELSE LET call == generate_markdown_gifts(files, ds,
                         [columns |-> d.columns, cells |-> d.rows[n].cells]) IN
         IF call.status = "raised"
         THEN [files |-> call.files, ds |-> call.ds, status |-> "raised"]
         ELSE RenderAll(call.files, call.ds, d, n + 1)

\* the body of the loop of process_excel_files for one .xlsx entry
ExcelFile(files, ds, links, entry, order) ==
    LET loaded == load_excel_into_dataframe(entry.sheet) IN
    IF df_empty(loaded) THEN [files |-> files, ds |-> ds, status |-> "ok"]
    ELSE IF entry.base \in DOMAIN links /\ ~HasColumn(loaded, "Id")
    THEN [files |-> files, ds |-> ds, status |-> "raised"]
    ELSE LET d == IF entry.base \in DOMAIN links
                  THEN Join(loaded, links[entry.base], order) ELSE loaded
             gifts == RenderAll(files, ds, d, 1) IN
         IF gifts.status = "raised" THEN gifts
         ELSE IF ~HasColumn(d, "NameOfMEP")
         THEN [files |-> gifts.files, ds |-> gifts.ds, status |-> "raised"]
         ELSE LET meps == generate_markdown_for_column_values(gifts.files, gifts.ds,
                              Unique(ColumnOf(d, "NameOfMEP"), 1, <<>>),
                              output_directory_mep, 1) IN
              IF meps.status = "raised" THEN meps
              ELSE generate_markdown_for_column_values(meps.files, meps.ds,
                       Unique(ColumnOf(d, "NameOfDonor"), 1, <<>>),
                       output_directory_donor, 1)

Entry(base, ext, readable, sheet, links) ==
    [base |-> base, ext |-> ext, readable |-> readable, sheet |-> sheet,
     links |-> links]

Sheet(rows) == [readable |-> TRUE, ncols |-> Len(Columns), rows |-> rows]

SheetsA ==
    {Sheet(<<HeaderLine, MkRow(Text(G1_23), Text(<<"A">>), "all")>>),
     Sheet(<<HeaderLine, MkRow(Text(G1_23), NaN, "all")>>),
     Sheet(<<HeaderLine>>),
     Sheet(<<MkRow(NaN, NaN, "last")>>),
     Sheet(<<MkRow(Num(<<"7">>), Text(<<"A">>), "all")>>),
     [readable |-> FALSE, ncols |-> Len(Columns), rows |-> <<>>]}

SheetsB ==
    {Sheet(<<HeaderLine, MkRow(Text(G2_23), Text(<<"O", "\"", "B">>), "all"),
             MkRow(Text(G1_23), Text(<<"B">>), "all")>>),
     Sheet(<<MkRow(Text(G1_23), Text(<<"A">>), "none")>>),
     [readable |-> TRUE, ncols |-> Len(Columns) - 1,
      rows |-> <<SubSeq(MkRow(Text(G1_23), Text(<<"A">>), "all"), 1, 10)>>]}

Entries ==
    {Entry("a", "xlsx", TRUE, sh, <<>>) : sh \in SheetsA}
    \cup {Entry("b", "xlsx", TRUE, sh, <<>>) : sh \in SheetsB}
    \cup {Entry("a", "pdf", TRUE, NoFile, <<<<"G", "1", "_", "2", "3">>>>),
          Entry("a", "pdf", FALSE, NoFile, <<>>),
          Entry("notes", "txt", TRUE, NoFile, <<>>)}

\* os.listdir: the entries in any order, no two with the same name
Listings ==
    {l \in SeqsUpTo(Entries, MaxFiles) :
        \A i \in DOMAIN l : \A j \in DOMAIN l :
            i # j => <<l[i].base, l[i].ext>> # <<l[j].base, l[j].ext>>}

IndexDirectories == {output_directory_mep, output_directory_donor}

DriverInit ==
    /\ pc = "pdfs"
    /\ listing \in Listings
    /\ pos = 1
    /\ pdf_urls = <<>>
    /\ merge_order \in {"left", "key"}
    /\ fs = <<>>
    /\ dirs \in {{}, IndexDirectories}
    /\ log = <<>>
    /\ xlsx = NoFile /\ df = EmptyDataFrame /\ sparse_df = EmptyDataFrame
    /\ urls = <<>> /\ photo_links = <<>> /\ joined = EmptyDataFrame

DriverRest == UNCHANGED <<xlsx, df, sparse_df, urls, photo_links, joined, log,
                          listing, merge_order>>

\* process_pdf_files: one entry of the listing
PdfEntry ==
    /\ pc = "pdfs"
    /\ pos <= Len(listing)
    /\ LET entry == listing[pos] IN
       IF entry.ext # "pdf"
       THEN pc' = pc /\ pos' = pos + 1 /\ pdf_urls' = pdf_urls
       ELSE IF ~entry.readable
       THEN pc' = "crashed" /\ pos' = pos /\ pdf_urls' = pdf_urls
       ELSE /\ pc' = pc
            /\ pos' = pos + 1
            /\ pdf_urls' = (entry.base :> LinkRecords(entry.links)) @@ pdf_urls
    /\ UNCHANGED <<fs, dirs>>
    /\ DriverRest

PdfsDone ==
    /\ pc = "pdfs"
    /\ pos > Len(listing)
    /\ pc' = "excels"
    /\ pos' = 1
    /\ UNCHANGED <<fs, dirs, pdf_urls>>
    /\ DriverRest

\* process_excel_files: one entry of the listing
ExcelEntry ==
    /\ pc = "excels"
    /\ pos <= Len(listing)
    /\ LET entry == listing[pos] IN
       IF entry.ext # "xlsx"
       THEN pc' = pc /\ pos' = pos + 1 /\ UNCHANGED <<fs, dirs>>
       ELSE LET done == ExcelFile(fs, dirs, pdf_urls, entry, merge_order) IN
            /\ fs' = done.files
            /\ dirs' = done.ds
            /\ IF done.status = "raised"
               THEN pc' = "crashed" /\ pos' = pos
               ELSE pc' = pc /\ pos' = pos + 1
    /\ UNCHANGED pdf_urls
    /\ DriverRest

ExcelsDone ==
    /\ pc = "excels"
    /\ pos > Len(listing)
    /\ pc' = "done"
    /\ UNCHANGED <<pos, fs, dirs, pdf_urls>>
    /\ DriverRest

DriverNext == PdfEntry \/ PdfsDone \/ ExcelEntry \/ ExcelsDone

SpecDriver == DriverInit /\ [][DriverNext]_vars

(***************************************************************************)
(* Claim about load failures.                                              *)
(***************************************************************************)
FailsToLoad(entry) == entry.ext = "xlsx" /\ LoadRaises(entry.sheet)

RECURSIVE PdfRun(_, _, _)
PdfRun(entries, n, links) ==
    IF n > Len(entries) THEN [links |-> links, status |-> "ok"]
    ELSE IF entries[n].ext # "pdf" THEN PdfRun(entries, n + 1, links)
    ELSE IF ~entries[n].readable THEN [links |-> links, status |-> "raised"]
    ELSE PdfRun(entries, n + 1,
                (entries[n].base :> LinkRecords(entries[n].links)) @@ links)

RECURSIVE ExcelRun(_, _, _, _, _, _)
ExcelRun(entries, n, files, ds, links, order) ==
    IF n > Len(entries) THEN [files |-> files, ds |-> ds, pc |-> "done"]
    ELSE IF entries[n].ext # "xlsx" THEN ExcelRun(entries, n + 1, files, ds, links, order)
    ELSE LET done == ExcelFile(files, ds, links, entries[n], order) IN
         IF done.status = "raised"
         THEN [files |-> done.files, ds |-> done.ds, pc |-> "crashed"]
         ELSE ExcelRun(entries, n + 1, done.files, done.ds, links, order)

\* the outcome of a whole run on a directory
RunOn(entries, ds, order) ==
    LET pdfs == PdfRun(entries, 1, <<>>) IN
    IF pdfs.status = "raised" THEN [files |-> <<>>, ds |-> ds, pc |-> "crashed"]
    ELSE ExcelRun(entries, 1, <<>>, ds, pdfs.links, order)

\* C6: when some .xlsx files of the directory fail inside the Table Loader,
\* the loader returns an empty table for each of them, no gift or index
\* document is written for them, and the run ends with the files, the
\* directories and the outcome it has on the directory without them.
C6_LoadFailuresAreSkipped ==
    pc \in {"done", "crashed"} =>
        LET others == SelectSeq(listing, LAMBDA e : ~FailsToLoad(e))
            run == RunOn(others, dirs \cap IndexDirectories, merge_order) IN
        /\ fs = run.files
        /\ dirs = run.ds
        /\ pc = run.pc
        /\ \A i \in DOMAIN listing :
               FailsToLoad(listing[i]) =>
                   load_excel_into_dataframe(listing[i].sheet) = EmptyDataFrame

C6_Witness ==
    /\ pc = "done"
    /\ \E i \in DOMAIN listing : \E j \in DOMAIN listing :
        /\ i < j
        /\ FailsToLoad(listing[i])
        /\ listing[j].ext = "xlsx"
        /\ ~df_empty(load_excel_into_dataframe(listing[j].sheet))
    /\ \E p \in DOMAIN fs : Dirname(p) = output_directory_mep
    /\ \E p \in DOMAIN fs : Dirname(Dirname(p)) = <<"g", "i", "f", "t", "s">>

====
